---- MODULE Spec2Model ----
(***************************************************************************)
(* Model of sistemacine5.py: the seats (Asiento) of one cinema room        *)
(* (SalaCine), their reservation and pricing, and the text file the room   *)
(* is saved to and loaded from.                                            *)
(*                                                                         *)
(* Python values are records [tipo, val]: tipo is the Python type, val the *)
(* number.  Prices and discounts are decimals: a price's val counts        *)
(* thousandths of the currency unit (10.0 is 10000) and a discount's val   *)
(* counts hundredths (0.20 is 20), so that the arithmetic of               *)
(* calcular_precio is exact on the prices used here.                       *)
(***************************************************************************)
EXTENDS Integers, Sequences, FiniteSets, TLC

VARIABLES salas, archivo, resultado

vars == <<salas, archivo, resultado>>

\* ------------------------------------------------------------- bounds
\* Most seats a room holds in the model.
MaxAsientos == 2
\* Most lines of a file written by something other than guardar_estado.
MaxLineas == 1

\* ------------------------------------------------------ Python values
I(n) == [tipo |-> "int", val |-> n]
F(n) == [tipo |-> "float", val |-> n]
B(b) == [tipo |-> "bool", val |-> IF b THEN 1 ELSE 0]
S == [tipo |-> "str", val |-> 0]

\* == between two Python values: numbers compare by value whatever their
\* type (1 == 1.0), a string equals no number.
PyEq(a, b) ==
    IF a.tipo = "str" \/ b.tipo = "str"
    THEN a = b
    ELSE a.val = b.val

\* The unit of a price (1.0) and of a discount (1.0), in val.
UnidadPrecio == 1000
UnidadDescuento == 100
DescuentoDia == 20
DescuentoMayor65 == 30

\* ------------------------------------------------------------ text
\* str(v) as f"{v}" writes it: "2" for the int 2, "2.0" for the float 2.0.
\* A text is the record of its form and of the number it spells.
Str(v) == [forma |-> v.tipo, val |-> v.val]

\* f"{p:.2f}": the price in hundredths, rounded to the nearest (no price of
\* the model lies halfway between two hundredths).
Formato2f(p) == [forma |-> "2f", val |-> (p.val + 5) \div 10]

\* int(t) on a text: only the spelling of an integer parses.
IntOk(t) == t.forma = "int"
IntDe(t) == I(t.val)

\* ------------------------------------------------------- validations
NoError == "None"

\* Variant of validar_entrada that rejects negative numbers only.
validar_entrada_cero(valor) ==
    IF valor.tipo \notin {"int", "float", "bool"} THEN "ValueError"
    ELSE IF valor.val < 0 THEN "ValueError"
    ELSE NoError

validar_entrada(valor) ==
    IF valor.tipo \notin {"int", "float", "bool"} THEN "ValueError"
    ELSE IF valor.val <= 0 THEN "ValueError"
    ELSE NoError

validar_tipo_booleano(valor) ==
    IF valor.tipo # "bool" THEN "ValueError" ELSE NoError

\* Variant of calcular_precio that applies the two discounts one after the
\* other instead of adding them.
calcular_precio_compuesto(precio_base, dia_espectador, es_mayor_65) ==
    LET tras_dia == IF dia_espectador.val # 0
                    THEN (precio_base.val * (UnidadDescuento - DescuentoDia)) \div UnidadDescuento
                    ELSE precio_base.val
        final == IF es_mayor_65.val # 0
                 THEN (tras_dia * (UnidadDescuento - DescuentoMayor65)) \div UnidadDescuento
                 ELSE tras_dia
    IN  IF dia_espectador.val = 0 /\ es_mayor_65.val = 0 THEN precio_base ELSE F(final)

\* Variant of calcular_precio that takes the discount off as an amount
\* (precio_base - descuento) instead of as a fraction of the base price.
calcular_precio_resta(precio_base, dia_espectador, es_mayor_65) ==
    LET descuento == (IF dia_espectador.val # 0 THEN DescuentoDia ELSE 0)
                     + (IF es_mayor_65.val # 0 THEN DescuentoMayor65 ELSE 0)
    IN  IF descuento = 0
        THEN precio_base
        ELSE F(precio_base.val - descuento * (UnidadPrecio \div UnidadDescuento))

calcular_precio(precio_base, dia_espectador, es_mayor_65) ==
    LET descuento == (IF dia_espectador.val # 0 THEN DescuentoDia ELSE 0)
                     + (IF es_mayor_65.val # 0 THEN DescuentoMayor65 ELSE 0)
    IN  IF descuento = 0
        THEN precio_base
        ELSE F((precio_base.val * (UnidadDescuento - descuento)) \div UnidadDescuento)

\* ------------------------------------------------------------ Asiento
NingunAsiento ==
    [numero |-> I(0), fila |-> I(0), reservado |-> FALSE,
     precio_base |-> I(0), precio_actual |-> I(0)]

\* Asiento.__init__: [error, asiento].
Asiento_init(numero, fila, precio_base) ==
    IF validar_entrada(numero) # NoError
       \/ validar_entrada(fila) # NoError
       \/ validar_entrada(precio_base) # NoError
    THEN [error |-> "ValueError", asiento |-> NingunAsiento]
    ELSE [error |-> NoError,
          asiento |-> [numero |-> numero, fila |-> fila, reservado |-> FALSE,
                       precio_base |-> precio_base, precio_actual |-> precio_base]]

\* Variant of Asiento.reservar that does not look at the reserved flag.
Asiento_reservar_sin_comprobar(a, es_mayor_65, dia_espectador) ==
    IF validar_tipo_booleano(es_mayor_65) # NoError
       \/ validar_tipo_booleano(dia_espectador) # NoError
    THEN [error |-> "ValueError", asiento |-> a]
    ELSE [error |-> NoError,
          asiento |-> [a EXCEPT
              !.precio_actual = calcular_precio(a.precio_base, dia_espectador, es_mayor_65),
              !.reservado = TRUE]]

\* Asiento.reservar: [error, asiento].
Asiento_reservar(a, es_mayor_65, dia_espectador) ==
    IF validar_tipo_booleano(es_mayor_65) # NoError
       \/ validar_tipo_booleano(dia_espectador) # NoError
    THEN [error |-> "ValueError", asiento |-> a]
    ELSE IF a.reservado
    THEN [error |-> "AsientoReservadoError", asiento |-> a]
    ELSE [error |-> NoError,
          asiento |-> [a EXCEPT
              !.precio_actual = calcular_precio(a.precio_base, dia_espectador, es_mayor_65),
              !.reservado = TRUE]]

\* Variant of Asiento.cancelar_reserva that keeps the discounted price.
Asiento_cancelar_reserva_sin_precio(a) ==
    IF ~a.reservado
    THEN [error |-> "AsientoNoReservadoError", asiento |-> a]
    ELSE [error |-> NoError, asiento |-> [a EXCEPT !.reservado = FALSE]]

\* Variant of Asiento.cancelar_reserva that resets the price and keeps the flag.
Asiento_cancelar_reserva_sin_bandera(a) ==
    IF ~a.reservado
    THEN [error |-> "AsientoNoReservadoError", asiento |-> a]
    ELSE [error |-> NoError, asiento |-> [a EXCEPT !.precio_actual = a.precio_base]]

\* Asiento.cancelar_reserva: [error, asiento].
Asiento_cancelar_reserva(a) ==
    IF ~a.reservado
    THEN [error |-> "AsientoNoReservadoError", asiento |-> a]
    ELSE [error |-> NoError,
          asiento |-> [a EXCEPT !.reservado = FALSE, !.precio_actual = a.precio_base]]

Estado(a) == IF a.reservado THEN "Reservado" ELSE "Disponible"

\* ----------------------------------------------------------- SalaCine
NingunaSala ==
    [precio_base |-> I(0), descuento_dia |-> I(0), descuento_mayor_65 |-> I(0),
     asientos |-> <<>>]

\* A discount in hundredths: a float holds hundredths already, an int or a
\* bool counts units.
Centesimas(v) == IF v.tipo = "float" THEN v.val ELSE v.val * UnidadDescuento

\* SalaCine.__init__: [error, sala].
SalaCine_init(precio_base, descuento_dia, descuento_mayor_65) ==
    IF validar_entrada(precio_base) # NoError
       \/ validar_entrada(descuento_dia) # NoError
       \/ validar_entrada(descuento_mayor_65) # NoError
    THEN [error |-> "ValueError", sala |-> NingunaSala]
    ELSE IF Centesimas(descuento_dia) > UnidadDescuento
            \/ Centesimas(descuento_mayor_65) > UnidadDescuento
    THEN [error |-> "ValueError", sala |-> NingunaSala]
    ELSE [error |-> NoError,
          sala |-> [precio_base |-> precio_base, descuento_dia |-> descuento_dia,
                    descuento_mayor_65 |-> descuento_mayor_65, asientos |-> <<>>]]

\* Variant of the match of agregar_asiento and buscar_asiento that compares
\* the seat number only.
CoincidentesSoloNumero(asientos, numero, fila) ==
    {i \in 1..Len(asientos) : PyEq(asientos[i].numero, numero)}

\* The seats of the sequence that match (numero, fila), as indices.
Coincidentes(asientos, numero, fila) ==
    {i \in 1..Len(asientos) :
        PyEq(asientos[i].numero, numero) /\ PyEq(asientos[i].fila, fila)}

Min(s) == CHOOSE x \in s : \A y \in s : x <= y

\* Variant of agregar_asiento that puts the new seat first.
agregar_asiento_al_principio(sala, numero, fila) ==
    IF validar_entrada(numero) # NoError \/ validar_entrada(fila) # NoError
    THEN [error |-> "ValueError", sala |-> sala]
    ELSE IF Coincidentes(sala.asientos, numero, fila) # {}
    THEN [error |-> "AsientoDuplicadoError", sala |-> sala]
    ELSE LET nuevo == Asiento_init(numero, fila, sala.precio_base)
         IN  IF nuevo.error # NoError
             THEN [error |-> nuevo.error, sala |-> sala]
             ELSE [error |-> NoError,
                   sala |-> [sala EXCEPT !.asientos = <<nuevo.asiento>> \o @]]

\* Variant of agregar_asiento that appends the seat before it looks for
\* a duplicate.
agregar_asiento_antes_de_comprobar(sala, numero, fila) ==
    IF validar_entrada(numero) # NoError \/ validar_entrada(fila) # NoError
    THEN [error |-> "ValueError", sala |-> sala]
    ELSE LET nuevo == Asiento_init(numero, fila, sala.precio_base)
         IN  IF nuevo.error # NoError
             THEN [error |-> nuevo.error, sala |-> sala]
             ELSE [error |-> IF Coincidentes(sala.asientos, numero, fila) # {}
                             THEN "AsientoDuplicadoError" ELSE NoError,
                   sala |-> [sala EXCEPT !.asientos = Append(@, nuevo.asiento)]]

\* SalaCine.agregar_asiento: [error, sala].
agregar_asiento(sala, numero, fila) ==
    IF validar_entrada(numero) # NoError \/ validar_entrada(fila) # NoError
    THEN [error |-> "ValueError", sala |-> sala]
    ELSE IF Coincidentes(sala.asientos, numero, fila) # {}
    THEN [error |-> "AsientoDuplicadoError", sala |-> sala]
    ELSE LET nuevo == Asiento_init(numero, fila, sala.precio_base)
         IN  IF nuevo.error # NoError
             THEN [error |-> nuevo.error, sala |-> sala]
             ELSE [error |-> NoError,
                   sala |-> [sala EXCEPT !.asientos = Append(@, nuevo.asiento)]]

\* Variant of buscar_asiento that returns the last match of the loop.
buscar_asiento_ultimo(sala, numero, fila) ==
    IF validar_entrada(numero) # NoError \/ validar_entrada(fila) # NoError
    THEN [error |-> "ValueError", valor |-> 0]
    ELSE IF Coincidentes(sala.asientos, numero, fila) = {}
    THEN [error |-> "AsientoNoEncontradoError", valor |-> 0]
    ELSE [error |-> NoError,
          valor |-> CHOOSE i \in Coincidentes(sala.asientos, numero, fila) :
                        \A j \in Coincidentes(sala.asientos, numero, fila) : j <= i]

\* SalaCine.buscar_asiento: [error, valor], valor the index of the seat
\* returned (0 when none is).
buscar_asiento(sala, numero, fila) ==
    IF validar_entrada(numero) # NoError \/ validar_entrada(fila) # NoError
    THEN [error |-> "ValueError", valor |-> 0]
    ELSE IF Coincidentes(sala.asientos, numero, fila) = {}
    THEN [error |-> "AsientoNoEncontradoError", valor |-> 0]
    ELSE [error |-> NoError, valor |-> Min(Coincidentes(sala.asientos, numero, fila))]

\* Variant of reservar_asiento that prices the seat with the discounts the
\* room was built with instead of those of calcular_precio.
reservar_asiento_configurado(sala, numero, fila, es_mayor_65, dia_espectador) ==
    IF validar_tipo_booleano(es_mayor_65) # NoError
       \/ validar_tipo_booleano(dia_espectador) # NoError
    THEN [error |-> "ValueError", sala |-> sala]
    ELSE LET b == buscar_asiento(sala, numero, fila)
         IN  IF b.error # NoError
             THEN [error |-> b.error, sala |-> sala]
             ELSE LET a == sala.asientos[b.valor]
                      descuento ==
                          (IF dia_espectador.val # 0 THEN sala.descuento_dia.val ELSE 0)
                          + (IF es_mayor_65.val # 0 THEN sala.descuento_mayor_65.val ELSE 0)
                  IN  IF a.reservado
                      THEN [error |-> "AsientoReservadoError", sala |-> sala]
                      ELSE [error |-> NoError,
                            sala |-> [sala EXCEPT !.asientos[b.valor] =
                                [a EXCEPT
                                    !.precio_actual =
                                        F((a.precio_base.val * (UnidadDescuento - descuento))
                                              \div UnidadDescuento),
                                    !.reservado = TRUE]]]

\* Variant of reservar_asiento that reserves every available seat of that
\* (row, number), not the first only.
reservar_asiento_todos(sala, numero, fila, es_mayor_65, dia_espectador) ==
    IF validar_tipo_booleano(es_mayor_65) # NoError
       \/ validar_tipo_booleano(dia_espectador) # NoError
    THEN [error |-> "ValueError", sala |-> sala]
    ELSE LET b == buscar_asiento(sala, numero, fila)
         IN  IF b.error # NoError
             THEN [error |-> b.error, sala |-> sala]
             ELSE LET r == Asiento_reservar(sala.asientos[b.valor], es_mayor_65,
                                            dia_espectador)
                  IN  IF r.error # NoError
                      THEN [error |-> r.error, sala |-> sala]
                      ELSE [error |-> NoError,
                            sala |-> [sala EXCEPT !.asientos =
                                [k \in 1..Len(sala.asientos) |->
                                    IF k \in Coincidentes(sala.asientos, numero, fila)
                                       /\ ~sala.asientos[k].reservado
                                    THEN Asiento_reservar(sala.asientos[k], es_mayor_65,
                                                          dia_espectador).asiento
                                    ELSE sala.asientos[k]]]]

\* Variant of reservar_asiento that looks the seat up before it checks the
\* flags.
reservar_asiento_busca_primero(sala, numero, fila, es_mayor_65, dia_espectador) ==
    LET b == buscar_asiento(sala, numero, fila)
    IN  IF b.error # NoError
        THEN [error |-> b.error, sala |-> sala]
        ELSE IF validar_tipo_booleano(es_mayor_65) # NoError
                \/ validar_tipo_booleano(dia_espectador) # NoError
        THEN [error |-> "ValueError", sala |-> sala]
        ELSE LET r == Asiento_reservar(sala.asientos[b.valor], es_mayor_65, dia_espectador)
             IN  IF r.error # NoError
                 THEN [error |-> r.error, sala |-> sala]
                 ELSE [error |-> NoError,
                       sala |-> [sala EXCEPT !.asientos[b.valor] = r.asiento]]

\* SalaCine.reservar_asiento: [error, sala].
reservar_asiento(sala, numero, fila, es_mayor_65, dia_espectador) ==
    IF validar_tipo_booleano(es_mayor_65) # NoError
       \/ validar_tipo_booleano(dia_espectador) # NoError
    THEN [error |-> "ValueError", sala |-> sala]
    ELSE LET b == buscar_asiento(sala, numero, fila)
         IN  IF b.error # NoError
             THEN [error |-> b.error, sala |-> sala]
             ELSE LET r == Asiento_reservar(sala.asientos[b.valor], es_mayor_65, dia_espectador)
                  IN  [error |-> r.error,
                       sala |-> [sala EXCEPT !.asientos[b.valor] = r.asiento]]

\* Variant of cancelar_reserva that cancels every reserved seat of that
\* (row, number), not the first only.
cancelar_reserva_todos(sala, numero, fila) ==
    LET b == buscar_asiento(sala, numero, fila)
    IN  IF b.error # NoError
        THEN [error |-> b.error, sala |-> sala]
        ELSE LET r == Asiento_cancelar_reserva(sala.asientos[b.valor])
             IN  IF r.error # NoError
                 THEN [error |-> r.error, sala |-> sala]
                 ELSE [error |-> NoError,
                       sala |-> [sala EXCEPT !.asientos =
                           [k \in 1..Len(sala.asientos) |->
                               IF k \in Coincidentes(sala.asientos, numero, fila)
                                  /\ sala.asientos[k].reservado
                               THEN Asiento_cancelar_reserva(sala.asientos[k]).asiento
                               ELSE sala.asientos[k]]]]

\* SalaCine.cancelar_reserva: [error, sala].
cancelar_reserva(sala, numero, fila) ==
    LET b == buscar_asiento(sala, numero, fila)
    IN  IF b.error # NoError
        THEN [error |-> b.error, sala |-> sala]
        ELSE LET r == Asiento_cancelar_reserva(sala.asientos[b.valor])
             IN  [error |-> r.error,
                  sala |-> [sala EXCEPT !.asientos[b.valor] = r.asiento]]

\* One row of the table or one line of the file: the four texts written
\* for a seat.  ncampos is the number of comma-separated fields.
Linea(a) ==
    [ncampos |-> 4, fila |-> Str(a.fila), numero |-> Str(a.numero),
     estado |-> Estado(a), precio |-> Formato2f(a.precio_actual)]

\* Variant of mostrar_asientos that prints the last seat first.
mostrar_asientos_invertido(sala) ==
    [i \in 1..Len(sala.asientos) |-> Linea(sala.asientos[Len(sala.asientos) + 1 - i])]

\* SalaCine.mostrar_asientos: the rows printed under the header.
mostrar_asientos(sala) == [i \in 1..Len(sala.asientos) |-> Linea(sala.asientos[i])]

\* SalaCine.guardar_estado: the lines written.
guardar_estado(sala) == [i \in 1..Len(sala.asientos) |-> Linea(sala.asientos[i])]

\* One turn of the loop of cargar_estado: [error, asiento].
CargarLinea(sala, linea) ==
    IF linea.ncampos # 4
    THEN [error |-> "ValueError", asiento |-> NingunAsiento]
    ELSE IF ~IntOk(linea.numero) \/ ~IntOk(linea.fila)
    THEN [error |-> "ValueError", asiento |-> NingunAsiento]
    ELSE LET nuevo == Asiento_init(IntDe(linea.numero), IntDe(linea.fila), sala.precio_base)
         IN  IF nuevo.error # NoError
             THEN nuevo
             ELSE IF linea.estado = "Reservado"
             THEN Asiento_reservar(nuevo.asiento, B(FALSE), B(FALSE))
             ELSE nuevo

RECURSIVE CargarLineas(_, _)
\* The loop of cargar_estado over the lines left: [error, sala].
CargarLineas(sala, lineas) ==
    IF lineas = <<>>
    THEN [error |-> NoError, sala |-> sala]
    ELSE LET c == CargarLinea(sala, Head(lineas))
         IN  IF c.error # NoError
             THEN [error |-> c.error, sala |-> sala]
             ELSE CargarLineas([sala EXCEPT !.asientos = Append(@, c.asiento)],
                               Tail(lineas))

\* Variant of cargar_estado that adds the seats of the file all together,
\* or none when a line fails.
cargar_estado_atomico(sala, arch) ==
    IF ~arch.existe
    THEN [error |-> "FileNotFoundError", sala |-> sala]
    ELSE IF CargarLineas(sala, arch.lineas).error # NoError
    THEN [error |-> CargarLineas(sala, arch.lineas).error, sala |-> sala]
    ELSE CargarLineas(sala, arch.lineas)

\* Variant of cargar_estado that empties the room before it loads.
cargar_estado_reemplaza(sala, arch) ==
    IF ~arch.existe
    THEN [error |-> "FileNotFoundError", sala |-> sala]
    ELSE CargarLineas([sala EXCEPT !.asientos = <<>>], arch.lineas)

\* SalaCine.cargar_estado: [error, sala].
cargar_estado(sala, arch) ==
    IF ~arch.existe
    THEN [error |-> "FileNotFoundError", sala |-> sala]
    ELSE CargarLineas(sala, arch.lineas)

\* ------------------------------------------------------------- inputs
\* The rooms of the program (one variable, sala, in main).
Salas == {"sala"}

\* The values a method is given.  Seat numbers: valid integers and zero;
\* rows: valid integers and a value that is no number; flags: the two
\* booleans and a value that is no boolean.
Numeros == {I(1), I(2), I(0)}
Filas == {I(1), I(2), S}
Banderas == {B(TRUE), B(FALSE), I(1)}

\* What a caller passes under Spec.  (numero, fila): three seats, a number
\* that is not above zero and a row that is not a number.
Identidades ==
    {<<I(1), I(1)>>, <<I(2), I(1)>>, <<I(1), I(2)>>, <<I(0), I(1)>>, <<I(1), S>>}

\* (es_mayor_65, dia_espectador): the four pairs of booleans, and two pairs
\* with a flag that is not a boolean.
ParesDeBanderas ==
    ({B(TRUE), B(FALSE)} \X {B(TRUE), B(FALSE)}) \cup {<<I(1), B(TRUE)>>, <<B(FALSE), I(1)>>}

\* SalaCine(...): 10.0, 0.12 and zero for the price, 0.20 and 0 and then
\* 0.30 and 1.5 for the discounts.
PreciosBase == {F(10 * UnidadPrecio), F(120), I(0)}
DescuentosDia == {F(DescuentoDia), F(0)}
DescuentosMayor65 == {F(DescuentoMayor65), F(150)}

\* What a caller passes under SpecArchivo, where the file is written and
\* read: seat numbers 1, 2 and the float 1.0, one row, both flags true,
\* rooms of price 10.0 with the default discounts.
NumerosArchivo == {I(1), I(2), F(1)}
FilasArchivo == {I(1)}
BanderasArchivo == {B(TRUE)}
PreciosBaseArchivo == {F(10 * UnidadPrecio)}

\* Lines a file not written by guardar_estado may hold: a reserved seat
\* 1-1, a seat of row 0, and a line of three fields.
LineaExterna(ncampos, fila, estado) ==
    [ncampos |-> ncampos, fila |-> Str(fila), numero |-> Str(I(1)),
     estado |-> estado, precio |-> Formato2f(F(10 * UnidadPrecio))]
LineasExternas ==
    {LineaExterna(4, I(1), "Reservado"), LineaExterna(4, I(0), "Disponible"),
     LineaExterna(3, I(1), "Disponible")}

RECURSIVE SeqHasta(_, _)
\* The sequences over s of length at most n.
SeqHasta(s, n) ==
    IF n = 0 THEN {<<>>}
    ELSE LET menores == SeqHasta(s, n - 1)
         IN  menores \cup {Append(q, x) : q \in menores, x \in s}

\* --------------------------------------------------------------- state
\* The outcome of the last call: the method, the exception raised (NoError
\* when none), the value returned (buscar_asiento: the seat's index) and the
\* rows printed (mostrar_asientos).
Resultado(op, error, valor, salida) ==
    [op |-> op, error |-> error, valor |-> valor, salida |-> salida]

\* main: sala = SalaCine(10.0); no file has been written yet.
Init ==
    /\ salas = [s \in Salas |->
                   SalaCine_init(F(10 * UnidadPrecio), F(DescuentoDia), F(DescuentoMayor65)).sala]
    /\ archivo = [existe |-> FALSE, lineas |-> <<>>]
    /\ resultado = Resultado("SalaCine", NoError, 0, <<>>)

\* sala = SalaCine(precio_base, descuento_dia, descuento_mayor_65): the
\* variable is bound to the new room unless the constructor raises.
Construir(s, precio_base, descuento_dia, descuento_mayor_65) ==
    LET r == SalaCine_init(precio_base, descuento_dia, descuento_mayor_65)
    IN  /\ salas' = IF r.error = NoError THEN [salas EXCEPT ![s] = r.sala] ELSE salas
        /\ resultado' = Resultado("SalaCine", r.error, 0, <<>>)
        /\ UNCHANGED archivo

AgregarAsiento(s, numero, fila) ==
    LET r == agregar_asiento(salas[s], numero, fila)
    IN  /\ Len(r.sala.asientos) <= MaxAsientos
        /\ salas' = [salas EXCEPT ![s] = r.sala]
        /\ resultado' = Resultado("agregar_asiento", r.error, 0, <<>>)
        /\ UNCHANGED archivo

BuscarAsiento(s, numero, fila) ==
    LET r == buscar_asiento(salas[s], numero, fila)
    IN  /\ resultado' = Resultado("buscar_asiento", r.error, r.valor, <<>>)
        /\ UNCHANGED <<salas, archivo>>

ReservarAsiento(s, numero, fila, es_mayor_65, dia_espectador) ==
    LET r == reservar_asiento(salas[s], numero, fila, es_mayor_65, dia_espectador)
    IN  /\ salas' = [salas EXCEPT ![s] = r.sala]
        /\ resultado' = Resultado("reservar_asiento", r.error, 0, <<>>)
        /\ UNCHANGED archivo

CancelarReserva(s, numero, fila) ==
    LET r == cancelar_reserva(salas[s], numero, fila)
    IN  /\ salas' = [salas EXCEPT ![s] = r.sala]
        /\ resultado' = Resultado("cancelar_reserva", r.error, 0, <<>>)
        /\ UNCHANGED archivo

MostrarAsientos(s) ==
    /\ resultado' = Resultado("mostrar_asientos", NoError, 0, mostrar_asientos(salas[s]))
    /\ UNCHANGED <<salas, archivo>>

GuardarEstado(s) ==
    /\ archivo' = [existe |-> TRUE, lineas |-> guardar_estado(salas[s])]
    /\ resultado' = Resultado("guardar_estado", NoError, 0, <<>>)
    /\ UNCHANGED salas

CargarEstado(s) ==
    LET r == cargar_estado(salas[s], archivo)
    IN  /\ Len(salas[s].asientos) + Len(archivo.lineas) <= MaxAsientos
        /\ salas' = [salas EXCEPT ![s] = r.sala]
        /\ resultado' = Resultado("cargar_estado", r.error, 0, <<>>)
        /\ UNCHANGED archivo

\* The file is written by something other than guardar_estado.
EscribirArchivo(lineas) ==
    /\ archivo' = [existe |-> TRUE, lineas |-> lineas]
    /\ resultado' = Resultado("escribir_archivo", NoError, 0, <<>>)
    /\ UNCHANGED salas

Next ==
    \/ \E s \in Salas, pb \in PreciosBase, dd \in DescuentosDia, dm \in DescuentosMayor65 :
          Construir(s, pb, dd, dm)
    \/ \E s \in Salas, a \in Identidades : AgregarAsiento(s, a[1], a[2])
    \/ \E s \in Salas, a \in Identidades : BuscarAsiento(s, a[1], a[2])
    \/ \E s \in Salas, a \in Identidades, p \in ParesDeBanderas :
          ReservarAsiento(s, a[1], a[2], p[1], p[2])
    \/ \E s \in Salas, a \in Identidades : CancelarReserva(s, a[1], a[2])
    \/ \E s \in Salas : MostrarAsientos(s)

\* The room's operations without the file.
Spec == Init /\ [][Next]_vars

NextArchivo ==
    \/ \E s \in Salas, pb \in PreciosBaseArchivo :
          Construir(s, pb, F(DescuentoDia), F(DescuentoMayor65))
    \/ \E s \in Salas, n \in NumerosArchivo, f \in FilasArchivo : AgregarAsiento(s, n, f)
    \/ \E s \in Salas, n \in NumerosArchivo, f \in FilasArchivo : BuscarAsiento(s, n, f)
    \/ \E s \in Salas, n \in NumerosArchivo, f \in FilasArchivo,
          m \in BanderasArchivo, d \in BanderasArchivo :
          ReservarAsiento(s, n, f, m, d)
    \/ \E s \in Salas, n \in NumerosArchivo, f \in FilasArchivo : CancelarReserva(s, n, f)
    \/ \E s \in Salas : MostrarAsientos(s)
    \/ \E s \in Salas : GuardarEstado(s)
    \/ \E s \in Salas : CargarEstado(s)
    \/ \E lineas \in SeqHasta(LineasExternas, MaxLineas) : EscribirArchivo(lineas)

\* The room's operations with the file it is saved to and loaded from.
SpecArchivo == Init /\ [][NextArchivo]_vars

\* ------------------------------------------------ two rooms, same calls
\* Two rooms built with the same base price and different discounts, and
\* every call made on both with the same arguments.  resultado holds the
\* outcome of the call on each room.
SalasPar == {"sala", "otra"}

\* The discounts the second room is built with: 0.50 and 1.0, 0.20 and 1.0,
\* 0.50 and 0.30.
ConfiguracionesPar == {<<F(50), F(100)>>, <<F(DescuentoDia), F(100)>>, <<F(50), F(DescuentoMayor65)>>}

\* What a caller passes under SpecPar.
NumerosPar == {I(1), I(2), I(0)}
FilasPar == {I(1)}

InitPar ==
    /\ \E c \in ConfiguracionesPar :
          /\ SalaCine_init(F(10 * UnidadPrecio), c[1], c[2]).error = NoError
          /\ salas = [s \in SalasPar |->
                IF s = "sala"
                THEN SalaCine_init(F(10 * UnidadPrecio), F(DescuentoDia), F(DescuentoMayor65)).sala
                ELSE SalaCine_init(F(10 * UnidadPrecio), c[1], c[2]).sala]
    /\ archivo = [existe |-> FALSE, lineas |-> <<>>]
    /\ resultado = [s \in SalasPar |-> Resultado("SalaCine", NoError, 0, <<>>)]

AgregarAsientoPar(numero, fila) ==
    /\ \A s \in SalasPar :
          Len(agregar_asiento(salas[s], numero, fila).sala.asientos) <= MaxAsientos
    /\ salas' = [s \in SalasPar |-> agregar_asiento(salas[s], numero, fila).sala]
    /\ resultado' = [s \in SalasPar |->
          Resultado("agregar_asiento", agregar_asiento(salas[s], numero, fila).error, 0, <<>>)]
    /\ UNCHANGED archivo

ReservarAsientoPar(numero, fila, es_mayor_65, dia_espectador) ==
    /\ salas' = [s \in SalasPar |->
          reservar_asiento(salas[s], numero, fila, es_mayor_65, dia_espectador).sala]
    /\ resultado' = [s \in SalasPar |->
          Resultado("reservar_asiento",
                    reservar_asiento(salas[s], numero, fila, es_mayor_65, dia_espectador).error,
                    0, <<>>)]
    /\ UNCHANGED archivo

CancelarReservaPar(numero, fila) ==
    /\ salas' = [s \in SalasPar |-> cancelar_reserva(salas[s], numero, fila).sala]
    /\ resultado' = [s \in SalasPar |->
          Resultado("cancelar_reserva", cancelar_reserva(salas[s], numero, fila).error, 0, <<>>)]
    /\ UNCHANGED archivo

CargarEstadoPar ==
    /\ \A s \in SalasPar : Len(salas[s].asientos) + Len(archivo.lineas) <= MaxAsientos
    /\ salas' = [s \in SalasPar |-> cargar_estado(salas[s], archivo).sala]
    /\ resultado' = [s \in SalasPar |->
          Resultado("cargar_estado", cargar_estado(salas[s], archivo).error, 0, <<>>)]
    /\ UNCHANGED archivo

\* The file both rooms load is written by something else.
EscribirArchivoPar(lineas) ==
    /\ archivo' = [existe |-> TRUE, lineas |-> lineas]
    /\ resultado' = [s \in SalasPar |-> Resultado("escribir_archivo", NoError, 0, <<>>)]
    /\ UNCHANGED salas

NextPar ==
    \/ \E n \in NumerosPar, f \in FilasPar : AgregarAsientoPar(n, f)
    \/ \E n \in NumerosPar, f \in FilasPar, m \in Banderas, d \in Banderas :
          ReservarAsientoPar(n, f, m, d)
    \/ \E n \in NumerosPar, f \in FilasPar : CancelarReservaPar(n, f)
    \/ CargarEstadoPar
    \/ \E lineas \in SeqHasta(LineasExternas, MaxLineas) : EscribirArchivoPar(lineas)

SpecPar == InitPar /\ [][NextPar]_vars

\* --------------------------------------------------------- properties
Bool == {B(TRUE), B(FALSE)}

\* A positive number: a numeric value above zero.
Positivo(v) == v.tipo \in {"int", "float", "bool"} /\ v.val > 0

\* Seat i of the sequence has the (row, number) given.
EsAsiento(asientos, i, numero, fila) ==
    PyEq(asientos[i].numero, numero) /\ PyEq(asientos[i].fila, fila)

\* Every seat number and row a caller passes in this model.
TodosNumeros == Numeros \cup NumerosArchivo
TodasFilas == Filas \cup FilasArchivo

\* C1: in every reachable state no two seats of a room share the same
\* (row, number).
SinDuplicados ==
    \A s \in Salas : \A i, j \in 1..Len(salas[s].asientos) :
        i # j => ~EsAsiento(salas[s].asientos, i,
                            salas[s].asientos[j].numero, salas[s].asientos[j].fila)

\* C2: in every reachable state a seat that is not reserved has its current
\* price equal to its base price.
DisponibleAPrecioBase ==
    \A s \in Salas : \A i \in 1..Len(salas[s].asientos) :
        LET a == salas[s].asientos[i]
        IN  ~a.reservado => PyEq(a.precio_actual, a.precio_base)

\* C2 witness: a reservation at a discounted price has just been cancelled
\* in a room that holds a seat loaded from the file.
DisponibleAPrecioBaseTestigo ==
    /\ resultado.op = "cancelar_reserva"
    /\ resultado.error = NoError
    /\ \E s \in Salas :
          /\ Len(salas[s].asientos) = 2
          /\ ~salas[s].asientos[1].reservado
          /\ salas[s].asientos[2].reservado
          /\ PyEq(salas[s].asientos[2].precio_actual, salas[s].asientos[2].precio_base)

\* C3: in every reachable state, reserving (boolean flags) a seat that is
\* reserved fails with AsientoReservadoError and cancelling a seat that is
\* not reserved fails with AsientoNoReservadoError, both on the seat and
\* through the room, where the seat is the first one with the (row, number)
\* given.
ReservaRepetidaFalla ==
    \A s \in Salas :
        /\ \A i \in 1..Len(salas[s].asientos) :
              LET a == salas[s].asientos[i]
              IN  /\ a.reservado =>
                        \A m \in Bool, d \in Bool :
                            Asiento_reservar(a, m, d).error = "AsientoReservadoError"
                  /\ ~a.reservado =>
                        Asiento_cancelar_reserva(a).error = "AsientoNoReservadoError"
        /\ \A n \in TodosNumeros, f \in TodasFilas :
              \A p \in 1..Len(salas[s].asientos) :
                  (/\ EsAsiento(salas[s].asientos, p, n, f)
                   /\ \A j \in 1..(p - 1) : ~EsAsiento(salas[s].asientos, j, n, f))
                  => /\ salas[s].asientos[p].reservado =>
                          \A m \in Bool, d \in Bool :
                              reservar_asiento(salas[s], n, f, m, d).error
                                  = "AsientoReservadoError"
                     /\ ~salas[s].asientos[p].reservado =>
                          cancelar_reserva(salas[s], n, f).error
                              = "AsientoNoReservadoError"

\* C3 witness: a reservation of a reserved seat has just failed.
ReservaRepetidaFallaTestigo ==
    /\ resultado.op = "reservar_asiento"
    /\ resultado.error = "AsientoReservadoError"
    /\ \E s \in Salas : \E i \in 1..Len(salas[s].asientos) : salas[s].asientos[i].reservado

\* C4: in every reachable state and for every available seat and every
\* pair of boolean flags, reserving and then cancelling succeeds twice and
\* gives back the seat, and the whole room, as they were.
ReservarYCancelarRestaura ==
    \A s \in Salas : \A i \in 1..Len(salas[s].asientos) :
        LET a == salas[s].asientos[i]
        IN  ~a.reservado =>
              \A m \in Bool, d \in Bool :
                  LET r1 == Asiento_reservar(a, m, d)
                      r2 == Asiento_cancelar_reserva(r1.asiento)
                      s1 == reservar_asiento(salas[s], a.numero, a.fila, m, d)
                      s2 == cancelar_reserva(s1.sala, a.numero, a.fila)
                  IN  /\ r1.error = NoError /\ r2.error = NoError
                      /\ ~r2.asiento.reservado
                      /\ PyEq(r2.asiento.precio_actual, a.precio_base)
                      /\ r2.asiento = a
                      /\ s1.error = NoError /\ s2.error = NoError
                      /\ s2.sala = salas[s]

\* C4 witness: a reservation has just been cancelled and the seat is
\* available at its base price.
ReservarYCancelarRestauraTestigo ==
    /\ resultado.op = "cancelar_reserva"
    /\ resultado.error = NoError
    /\ \E s \in Salas : \E i \in 1..Len(salas[s].asientos) :
          /\ ~salas[s].asientos[i].reservado
          /\ salas[s].asientos[i].precio_actual = salas[s].asientos[i].precio_base

\* The share of the base price paid, in hundredths: 100 without a flag, 80
\* on a discount day, 70 for a senior, 50 for both.
Porcentaje(es_mayor_65, dia_espectador) ==
    IF es_mayor_65 /\ dia_espectador THEN 50
    ELSE IF es_mayor_65 THEN 70
    ELSE IF dia_espectador THEN 80
    ELSE 100

\* C5: in every reachable state, reserving an available seat with boolean
\* flags succeeds, sets the reserved flag and sets the current price to the
\* base price less 0.20 (discount day) and less 0.30 (senior), added: 100%,
\* 80%, 70% or 50% of the base price, 5.0 for both flags on 10.0.
ReservaAplicaDescuento ==
    \A s \in Salas : \A i \in 1..Len(salas[s].asientos) :
        LET a == salas[s].asientos[i]
        IN  ~a.reservado =>
              \A m \in BOOLEAN, d \in BOOLEAN :
                  LET r == Asiento_reservar(a, B(m), B(d))
                      q == reservar_asiento(salas[s], a.numero, a.fila, B(m), B(d))
                  IN  /\ r.error = NoError
                      /\ r.asiento.reservado
                      /\ r.asiento.precio_actual.val * 100
                            = a.precio_base.val * Porcentaje(m, d)
                      /\ (~m /\ ~d) => r.asiento.precio_actual = a.precio_base
                      /\ (m /\ d /\ a.precio_base.val = 10 * UnidadPrecio)
                            => r.asiento.precio_actual.val = 5 * UnidadPrecio
                      /\ q.error = NoError
                      /\ q.sala.asientos[i] = r.asiento

\* C5 witness: a seat of base price 10.0 has just been reserved at 5.0.
ReservaAplicaDescuentoTestigo ==
    /\ resultado.op = "reservar_asiento"
    /\ resultado.error = NoError
    /\ \E s \in Salas : \E i \in 1..Len(salas[s].asientos) :
          /\ salas[s].asientos[i].reservado
          /\ salas[s].asientos[i].precio_base.val = 10 * UnidadPrecio
          /\ salas[s].asientos[i].precio_actual.val = 5 * UnidadPrecio

\* C6: in every reachable state and for positive number and row,
\* agregar_asiento fails with AsientoDuplicadoError exactly when some seat of
\* the room has the same (row, number), whatever its flag and price.
DuplicadoExactamente ==
    \A s \in Salas : \A n \in TodosNumeros, f \in TodasFilas :
        (Positivo(n) /\ Positivo(f)) =>
            (agregar_asiento(salas[s], n, f).error = "AsientoDuplicadoError"
             <=> \E i \in 1..Len(salas[s].asientos) :
                    /\ PyEq(salas[s].asientos[i].numero, n)
                    /\ PyEq(salas[s].asientos[i].fila, f))

\* C6 witness: adding a seat has just failed as a duplicate in a room with
\* a seat reserved at a discounted price and a seat that is available.
DuplicadoExactamenteTestigo ==
    /\ resultado.op = "agregar_asiento"
    /\ resultado.error = "AsientoDuplicadoError"
    /\ \E s \in Salas : \E i, j \in 1..Len(salas[s].asientos) :
          /\ salas[s].asientos[i].reservado
          /\ salas[s].asientos[i].precio_actual # salas[s].asientos[i].precio_base
          /\ ~salas[s].asientos[j].reservado

\* The line written for a new seat (numero, fila) of a room.
LineaNueva(sala, numero, fila) ==
    [ncampos |-> 4, fila |-> Str(fila), numero |-> Str(numero),
     estado |-> "Disponible", precio |-> Formato2f(sala.precio_base)]

\* C7: in every reachable state a successful agregar_asiento appends one
\* seat at the end, with the (row, number) given, not reserved and with base
\* and current price equal to the room's base price, and keeps the seats
\* already there, their order and their state; the rows listed and the lines
\* saved follow the order of insertion.
AgregarAlFinal ==
    \A s \in Salas :
        /\ Len(mostrar_asientos(salas[s])) = Len(salas[s].asientos)
        /\ Len(guardar_estado(salas[s])) = Len(salas[s].asientos)
        /\ \A i \in 1..Len(salas[s].asientos) :
              /\ mostrar_asientos(salas[s])[i].numero = Str(salas[s].asientos[i].numero)
              /\ mostrar_asientos(salas[s])[i].fila = Str(salas[s].asientos[i].fila)
              /\ guardar_estado(salas[s])[i].numero = Str(salas[s].asientos[i].numero)
              /\ guardar_estado(salas[s])[i].fila = Str(salas[s].asientos[i].fila)
        /\ \A n \in TodosNumeros, f \in TodasFilas :
              LET r == agregar_asiento(salas[s], n, f)
                  k == Len(salas[s].asientos)
              IN  r.error = NoError =>
                    /\ Len(r.sala.asientos) = k + 1
                    /\ SubSeq(r.sala.asientos, 1, k) = salas[s].asientos
                    /\ r.sala.asientos[k + 1] =
                          [numero |-> n, fila |-> f, reservado |-> FALSE,
                           precio_base |-> salas[s].precio_base,
                           precio_actual |-> salas[s].precio_base]
                    /\ r.sala.precio_base = salas[s].precio_base
                    /\ mostrar_asientos(r.sala)
                          = Append(mostrar_asientos(salas[s]), LineaNueva(salas[s], n, f))
                    /\ guardar_estado(r.sala)
                          = Append(guardar_estado(salas[s]), LineaNueva(salas[s], n, f))

\* C7 witness: a second seat has just been added after a seat that is
\* reserved at a discounted price.
AgregarAlFinalTestigo ==
    /\ resultado.op = "agregar_asiento"
    /\ resultado.error = NoError
    /\ \E s \in Salas :
          /\ Len(salas[s].asientos) = 2
          /\ salas[s].asientos[1].reservado
          /\ salas[s].asientos[1].precio_actual # salas[s].asientos[1].precio_base
          /\ ~salas[s].asientos[2].reservado
          /\ salas[s].asientos[2].precio_actual = salas[s].precio_base

\* C8: in every reachable state and for positive number and row,
\* buscar_asiento fails with AsientoNoEncontradoError exactly when no seat
\* has that (row, number), so always in an empty room, and otherwise returns
\* the first seat in insertion order that has it; reservar_asiento and
\* cancelar_reserva fail with the same error when no seat has it.
BuscarPrimero ==
    \A s \in Salas : \A n \in TodosNumeros, f \in TodasFilas :
        (Positivo(n) /\ Positivo(f)) =>
            LET c == {i \in 1..Len(salas[s].asientos) :
                          /\ PyEq(salas[s].asientos[i].numero, n)
                          /\ PyEq(salas[s].asientos[i].fila, f)}
                b == buscar_asiento(salas[s], n, f)
            IN  /\ (b.error = "AsientoNoEncontradoError") <=> (c = {})
                /\ salas[s].asientos = <<>> => b.error = "AsientoNoEncontradoError"
                /\ c # {} =>
                      /\ b.error = NoError
                      /\ b.valor \in c
                      /\ \A j \in c : b.valor <= j
                /\ c = {} =>
                      /\ \A m \in Bool, d \in Bool :
                            reservar_asiento(salas[s], n, f, m, d).error
                                = "AsientoNoEncontradoError"
                      /\ cancelar_reserva(salas[s], n, f).error
                            = "AsientoNoEncontradoError"

\* C8 witness: buscar_asiento has just returned the first of two seats that
\* have the same (row, number).
BuscarPrimeroTestigo ==
    /\ resultado.op = "buscar_asiento"
    /\ resultado.error = NoError
    /\ resultado.valor = 1
    /\ \E s \in Salas :
          /\ Len(salas[s].asientos) = 2
          /\ EsAsiento(salas[s].asientos, 2,
                       salas[s].asientos[1].numero, salas[s].asientos[1].fila)

\* The seats and the rows of the scenario of main, written out: seat
\* numero-fila of a room of base price 10.0, and the row printed for it.
AsientoDeMain(numero, fila, reservado, precio) ==
    [numero |-> [tipo |-> "int", val |-> numero], fila |-> [tipo |-> "int", val |-> fila],
     reservado |-> reservado,
     precio_base |-> [tipo |-> "float", val |-> 10000],
     precio_actual |-> [tipo |-> "float", val |-> precio]]
FilaDeMain(fila, numero, estado, centimos) ==
    [ncampos |-> 4, fila |-> [forma |-> "int", val |-> fila],
     numero |-> [forma |-> "int", val |-> numero],
     estado |-> estado, precio |-> [forma |-> "2f", val |-> centimos]]

\* C9: from SalaCine(10.0), agregar_asiento(1, 1), agregar_asiento(2, 1) and
\* reservar_asiento(1, 1, True, True) succeed and the listing then shows seat
\* 1-1 Reservado at 5.00 and seat 1-2 Disponible at 10.00, in this order;
\* cancelar_reserva(1, 1) then succeeds and the listing shows both seats
\* Disponible at 10.00.  Each step is stated from the state the step before
\* leaves.
EscenarioDeMain ==
    \A s \in Salas :
        LET sala == salas[s]
            con(asientos) == [sala EXCEPT !.asientos = asientos]
            a11 == AsientoDeMain(1, 1, FALSE, 10000)
            a11r == AsientoDeMain(1, 1, TRUE, 5000)
            a21 == AsientoDeMain(2, 1, FALSE, 10000)
        IN  sala.precio_base = [tipo |-> "float", val |-> 10000] =>
              /\ sala.asientos = <<>> =>
                    agregar_asiento(sala, I(1), I(1))
                        = [error |-> NoError, sala |-> con(<<a11>>)]
              /\ sala.asientos = <<a11>> =>
                    agregar_asiento(sala, I(2), I(1))
                        = [error |-> NoError, sala |-> con(<<a11, a21>>)]
              /\ sala.asientos = <<a11, a21>> =>
                    /\ reservar_asiento(sala, I(1), I(1), B(TRUE), B(TRUE))
                          = [error |-> NoError, sala |-> con(<<a11r, a21>>)]
                    /\ mostrar_asientos(sala)
                          = <<FilaDeMain(1, 1, "Disponible", 1000),
                              FilaDeMain(1, 2, "Disponible", 1000)>>
              /\ sala.asientos = <<a11r, a21>> =>
                    /\ mostrar_asientos(sala)
                          = <<FilaDeMain(1, 1, "Reservado", 500),
                              FilaDeMain(1, 2, "Disponible", 1000)>>
                    /\ cancelar_reserva(sala, I(1), I(1))
                          = [error |-> NoError, sala |-> con(<<a11, a21>>)]

\* C9 witness: the listing after the reservation of the scenario has just
\* been printed.
EscenarioDeMainTestigo ==
    /\ resultado.op = "mostrar_asientos"
    /\ resultado.error = NoError
    /\ resultado.salida = <<FilaDeMain(1, 1, "Reservado", 500),
                            FilaDeMain(1, 2, "Disponible", 1000)>>
    /\ \E s \in Salas :
          salas[s].asientos = <<AsientoDeMain(1, 1, TRUE, 5000),
                                AsientoDeMain(2, 1, FALSE, 10000)>>

\* The base prices a room can be built with, among those of the model.
PreciosValidos == {pb \in PreciosBase \cup PreciosBaseArchivo : Positivo(pb)}

\* The seats of a room, saved and loaded into a new room of base price pb,
\* are all there, in order, with their (row, number) and their state, at
\* the new room's base price.
IdaYVueltaDe(sala, pb) ==
    LET fresca == SalaCine_init(pb, F(DescuentoDia), F(DescuentoMayor65)).sala
        r == cargar_estado(fresca, [existe |-> TRUE, lineas |-> guardar_estado(sala)])
    IN  /\ r.error = NoError
        /\ Len(r.sala.asientos) = Len(sala.asientos)
        /\ \A i \in 1..Len(sala.asientos) :
              /\ i <= Len(r.sala.asientos)
              /\ PyEq(r.sala.asientos[i].numero, sala.asientos[i].numero)
              /\ PyEq(r.sala.asientos[i].fila, sala.asientos[i].fila)
              /\ r.sala.asientos[i].reservado = sala.asientos[i].reservado
              /\ PyEq(r.sala.asientos[i].precio_actual, pb)

\* C10: saving any reachable room and loading the file into a new, empty
\* room gives the same seats in the same order, with the same (row, number)
\* and the same state, every one at the base price of the new room.
IdaYVuelta ==
    \A s \in Salas : \A pb \in PreciosValidos : IdaYVueltaDe(salas[s], pb)

\* The same for the rooms whose seat numbers and rows are all of type int.
IdaYVueltaEnteros ==
    \A s \in Salas : \A pb \in PreciosValidos :
        (\A i \in 1..Len(salas[s].asientos) :
            /\ salas[s].asientos[i].numero.tipo = "int"
            /\ salas[s].asientos[i].fila.tipo = "int")
        => IdaYVueltaDe(salas[s], pb)

\* A seat reserved at 5.00 in a room of base price 10.0 has been saved.
IdaYVueltaEnterosTestigo ==
    /\ resultado.op = "guardar_estado"
    /\ \E s \in Salas : \E i \in 1..Len(salas[s].asientos) :
          /\ salas[s].asientos[i].reservado
          /\ salas[s].asientos[i].precio_actual.val = 5 * UnidadPrecio
          /\ archivo.lineas[i].precio.val = 500

\* C11: two rooms built with the same base price and different valid
\* discounts, given the same calls of agregar_asiento, reservar_asiento,
\* cancelar_reserva and cargar_estado, have after every call the same seats
\* with the same flags and prices, and the calls the same outcome.
DescuentosSinEfecto ==
    /\ salas["sala"].precio_base = salas["otra"].precio_base
    /\ <<salas["sala"].descuento_dia, salas["sala"].descuento_mayor_65>>
          # <<salas["otra"].descuento_dia, salas["otra"].descuento_mayor_65>>
    /\ salas["sala"].asientos = salas["otra"].asientos
    /\ resultado["sala"] = resultado["otra"]

\* C11 witness: both rooms have just reserved a seat at half the base
\* price, though the second was built with other discounts.
DescuentosSinEfectoTestigo ==
    /\ resultado["sala"].op = "reservar_asiento"
    /\ resultado["sala"].error = NoError
    /\ \E i \in 1..Len(salas["otra"].asientos) :
          /\ salas["otra"].asientos[i].reservado
          /\ salas["otra"].asientos[i].precio_actual.val * 2
                = salas["otra"].asientos[i].precio_base.val
    /\ salas["otra"].descuento_dia.val + salas["otra"].descuento_mayor_65.val
          # DescuentoDia + DescuentoMayor65

\* The base prices and the discounts a room is built with in C12: zero,
\* negative, one hundredth, exactly 1.0, just above 1.0, ints and a bool.
PreciosConstruccion == PreciosBase \cup {I(5), F(0 - UnidadPrecio)}
DescuentosConstruccion ==
    {F(0), F(1), F(UnidadDescuento), F(UnidadDescuento + 1), F(0 - DescuentoDia),
     I(0), I(1), I(2)}

\* A number above 1.0.
MayorQueUno(v) ==
    \/ v.tipo = "float" /\ v.val > UnidadDescuento
    \/ v.tipo \in {"int", "bool"} /\ v.val > 1

Posiciones(sala, numero, fila) ==
    {i \in 1..Len(sala.asientos) : EsAsiento(sala.asientos, i, numero, fila)}

\* C13, as stated: reservar_asiento fails with ValueError when a flag is not
\* a boolean, whatever the seat; with boolean flags and no seat of that
\* (row, number), with AsientoNoEncontradoError; with boolean flags and the
\* seat reserved, with AsientoReservadoError; otherwise it reserves the seat.
OrdenDeReserva ==
    \A s \in Salas : \A n \in Numeros, f \in Filas, m \in Banderas, d \in Banderas :
        LET r == reservar_asiento(salas[s], n, f, m, d)
            c == Posiciones(salas[s], n, f)
        IN  IF m \notin Bool \/ d \notin Bool
            THEN r.error = "ValueError"
            ELSE IF c = {}
            THEN r.error = "AsientoNoEncontradoError"
            ELSE IF salas[s].asientos[Min(c)].reservado
            THEN r.error = "AsientoReservadoError"
            ELSE r.error = NoError /\ r.sala.asientos[Min(c)].reservado

\* C13, amended: as above, and with boolean flags and a number or a row
\* that is not a positive number reservar_asiento fails with ValueError
\* before it looks for the seat.  Stated in the states a reservar_asiento
\* has just been called in; every room is in one after a refused call.
OrdenDeReservaConEntradas ==
    \A s \in Salas : \A n \in Numeros, f \in Filas, m \in Banderas, d \in Banderas :
        resultado.op = "reservar_asiento" =>
        LET r == reservar_asiento(salas[s], n, f, m, d)
            c == Posiciones(salas[s], n, f)
        IN  IF m \notin Bool \/ d \notin Bool
            THEN r.error = "ValueError"
            ELSE IF ~Positivo(n) \/ ~Positivo(f)
            THEN r.error = "ValueError"
            ELSE IF c = {}
            THEN r.error = "AsientoNoEncontradoError"
            ELSE IF salas[s].asientos[Min(c)].reservado
            THEN r.error = "AsientoReservadoError"
            ELSE r.error = NoError /\ r.sala.asientos[Min(c)].reservado

\* C13 witness: a reservation has just been refused with ValueError in a
\* room that holds a reserved seat, for which a flag that is not a boolean
\* gives ValueError and boolean flags AsientoReservadoError.
OrdenDeReservaConEntradasTestigo ==
    /\ resultado.op = "reservar_asiento"
    /\ resultado.error = "ValueError"
    /\ \E s \in Salas : \E i \in 1..Len(salas[s].asientos) :
          LET a == salas[s].asientos[i]
          IN  /\ a.reservado
              /\ reservar_asiento(salas[s], a.numero, a.fila, I(1), B(TRUE)).error
                    = "ValueError"
              /\ reservar_asiento(salas[s], a.numero, a.fila, B(TRUE), B(TRUE)).error
                    = "AsientoReservadoError"

\* The (row, number, base price) of the seats of a room, in order.
Triples(sala) ==
    [i \in 1..Len(sala.asientos) |->
        <<sala.asientos[i].fila, sala.asientos[i].numero, sala.asientos[i].precio_base>>]

\* Sequence p is the beginning of sequence q.
EsPrefijo(p, q) == Len(p) <= Len(q) /\ \A i \in 1..Len(p) : p[i] = q[i]

\* C14: across every step of a room (a step that builds a new room does not
\* count) the (row, number, base price) of its seats before the step are
\* the beginning of those after it: no seat is removed or moved, and none
\* changes its row, number or base price.
AsientosPermanecen ==
    [][\A s \in Salas :
          \/ resultado'.op = "SalaCine" /\ resultado'.error = NoError
          \/ EsPrefijo(Triples(salas[s]), Triples(salas'[s]))]_vars

\* C14 witness: cargar_estado has just added a seat to a room that had one
\* already, and the room holds a reserved seat.
AsientosPermanecenTestigo ==
    /\ resultado.op = "cargar_estado"
    /\ resultado.error = NoError
    /\ archivo.lineas # <<>>
    /\ \E s \in Salas :
          /\ Len(salas[s].asientos) > Len(archivo.lineas)
          /\ \E i \in 1..Len(salas[s].asientos) : salas[s].asientos[i].reservado

\* Seat j of a room comes after another seat of the same (row, number).
EsDuplicadoPosterior(sala, j) ==
    \E i \in 1..(j - 1) :
        EsAsiento(sala.asientos, i, sala.asientos[j].numero, sala.asientos[j].fila)

\* C15: a seat that comes after another of the same (row, number) is left
\* as it is by every step of the room (a step that builds a new room does
\* not count): reservar_asiento and cancelar_reserva act on the first, so
\* the later one keeps the flag and the price it was loaded with.
DuplicadosIntactos ==
    [][\A s \in Salas :
          \/ resultado'.op = "SalaCine" /\ resultado'.error = NoError
          \/ \A j \in 1..Len(salas[s].asientos) :
                EsDuplicadoPosterior(salas[s], j) =>
                    /\ j <= Len(salas'[s].asientos)
                    /\ salas'[s].asientos[j] = salas[s].asientos[j]]_vars

\* C15 witness: cancelar_reserva has just succeeded on the first of two
\* seats of the same (row, number), and the second is still reserved, at
\* the base price it was loaded with.
DuplicadosIntactosTestigo ==
    /\ resultado.op = "cancelar_reserva"
    /\ resultado.error = NoError
    /\ \E s \in Salas : \E j \in 1..Len(salas[s].asientos) :
          /\ EsDuplicadoPosterior(salas[s], j)
          /\ salas[s].asientos[j].reservado
          /\ salas[s].asientos[j].precio_actual = salas[s].asientos[j].precio_base
          /\ \A i \in 1..(j - 1) : ~salas[s].asientos[i].reservado
          /\ cancelar_reserva(salas[s], salas[s].asientos[j].numero,
                              salas[s].asientos[j].fila).error = "AsientoNoReservadoError"

\* C16: a call of agregar_asiento, buscar_asiento, reservar_asiento or
\* cancelar_reserva that fails leaves the room as it was: the same seats,
\* each with the same flag and price.
ErrorSinCambio ==
    [][(/\ resultado'.op \in {"agregar_asiento", "buscar_asiento", "reservar_asiento",
                              "cancelar_reserva"}
        /\ resultado'.error # NoError)
           => salas' = salas]_vars

\* C16 witness: a call has just failed with AsientoDuplicadoError in a room
\* that holds a reserved seat at a reduced price.
ErrorSinCambioTestigo ==
    /\ resultado.op = "agregar_asiento"
    /\ resultado.error = "AsientoDuplicadoError"
    /\ \E s \in Salas : \E i \in 1..Len(salas[s].asientos) :
          /\ salas[s].asientos[i].reservado
          /\ salas[s].asientos[i].precio_actual # salas[s].asientos[i].precio_base

\* Room q is room p with nothing changed but the flag and the price of
\* seat k.
SoloCambia(p, q, k) ==
    /\ q.precio_base = p.precio_base
    /\ q.descuento_dia = p.descuento_dia
    /\ q.descuento_mayor_65 = p.descuento_mayor_65
    /\ Len(q.asientos) = Len(p.asientos)
    /\ \A i \in 1..Len(p.asientos) : i # k => q.asientos[i] = p.asientos[i]
    /\ q.asientos[k].numero = p.asientos[k].numero
    /\ q.asientos[k].fila = p.asientos[k].fila
    /\ q.asientos[k].precio_base = p.asientos[k].precio_base

\* In a room, a reservar_asiento or cancelar_reserva that succeeds changes
\* the first seat of that (row, number) and nothing else.
MarcoDeReserva(sala) ==
    \A n \in TodosNumeros, f \in TodasFilas :
        LET c == Posiciones(sala, n, f)
            x == cancelar_reserva(sala, n, f)
        IN  /\ \A m \in Bool, d \in Bool :
                  LET r == reservar_asiento(sala, n, f, m, d)
                  IN  r.error = NoError =>
                          /\ c # {}
                          /\ SoloCambia(sala, r.sala, Min(c))
                          /\ ~sala.asientos[Min(c)].reservado
                          /\ r.sala.asientos[Min(c)].reservado
            /\ x.error = NoError =>
                  /\ c # {}
                  /\ SoloCambia(sala, x.sala, Min(c))
                  /\ sala.asientos[Min(c)].reservado
                  /\ ~x.sala.asientos[Min(c)].reservado

\* C17: a reservar_asiento or cancelar_reserva that succeeds changes the
\* flag and the price of one seat, the first of that (row, number), and
\* leaves every other seat, the length and order of the seats and the
\* room's base price as they were; buscar_asiento, mostrar_asientos and
\* guardar_estado change no seat and no attribute of the room.
MarcoDeOperaciones ==
    /\ [](\A s \in Salas : MarcoDeReserva(salas[s]))
    /\ [][resultado'.op \in {"buscar_asiento", "mostrar_asientos", "guardar_estado"}
             => salas' = salas]_vars

\* C17 witness: guardar_estado has just written a room in which the first
\* of two seats of the same (row, number) is reserved and the second is not.
MarcoDeOperacionesTestigo ==
    /\ resultado.op = "guardar_estado"
    /\ \E s \in Salas : \E j \in 1..Len(salas[s].asientos) :
          /\ EsDuplicadoPosterior(salas[s], j)
          /\ ~salas[s].asientos[j].reservado
          /\ salas[s].asientos[1].reservado
          /\ archivo.lineas = guardar_estado(salas[s])

\* The percentages of the base price a seat can cost.
Porcentajes == {100, 80, 70, 50}

MaxLineasPrueba == 2

\* A line of a file from which a seat can be built: four fields, and a
\* number and a row that read as integers above zero.
LineaValida(linea) ==
    /\ linea.ncampos = 4
    /\ linea.numero.forma = "int" /\ linea.numero.val > 0
    /\ linea.fila.forma = "int" /\ linea.fila.val > 0

\* The seat a room builds from a valid line.
AsientoDeLinea(sala, linea) ==
    [numero |-> I(linea.numero.val), fila |-> I(linea.fila.val),
     reservado |-> (linea.estado = "Reservado"),
     precio_base |-> sala.precio_base, precio_actual |-> sala.precio_base]

\* Room q is room p after the first n lines were loaded and no other.
CargadasHasta(p, q, lineas, n) ==
    /\ Len(q.asientos) = Len(p.asientos) + n
    /\ \A i \in 1..Len(p.asientos) : q.asientos[i] = p.asientos[i]
    /\ \A i \in 1..n : q.asientos[Len(p.asientos) + i] = AsientoDeLinea(p, lineas[i])
    /\ q.precio_base = p.precio_base

\* C19: cargar_estado appends one seat per line as it reads, so when line k
\* fails (a row that is not above zero, a line of three fields, a number
\* that is no integer) it ends with ValueError, the seats of lines 1..k-1
\* stay appended to the room and no seat is built for line k or later.
\* Stated for every reachable room, for its own saved file and for the
\* files of up to MaxLineasPrueba lines.
CargaParcial ==
    \A s \in Salas :
        \A lineas \in SeqHasta(LineasExternas, MaxLineasPrueba) \cup {guardar_estado(salas[s])} :
            LET r == cargar_estado(salas[s], [existe |-> TRUE, lineas |-> lineas])
                malas == {k \in 1..Len(lineas) : ~LineaValida(lineas[k])}
            IN  IF malas = {}
                THEN r.error = NoError /\ CargadasHasta(salas[s], r.sala, lineas, Len(lineas))
                ELSE /\ r.error = "ValueError"
                     /\ CargadasHasta(salas[s], r.sala, lineas, Min(malas) - 1)

\* C19 witness: cargar_estado has just failed with ValueError on the second
\* line of the file, and the room holds the seat of the first line and no
\* other.
CargaParcialTestigo ==
    /\ resultado.op = "cargar_estado"
    /\ resultado.error = "ValueError"
    /\ Len(archivo.lineas) = 2
    /\ LineaValida(archivo.lineas[1])
    /\ ~LineaValida(archivo.lineas[2])
    /\ \E s \in Salas :
          salas[s].asientos = <<AsientoDeLinea(salas[s], archivo.lineas[1])>>

====
